---- MODULE Spec2Model ----
(***************************************************************************)
(* Face recognition: training-data synthesis, training run, persisted      *)
(* artifact and the recognition decision, modelled from                    *)
(*   src/Train_face/training.py, src/Train_face/face_utils.py,             *)
(*   src/face_recognition_utils.py and src/app.py.                         *)
(*                                                                         *)
(* Images are abstract: an image is its origin (id), its channel layout,   *)
(* the number of regions the Haar cascade finds in it, and the ordered     *)
(* list of OpenCV operations applied to it so far.  Raw LBPH distances and *)
(* confidences are integers.                                               *)
(***************************************************************************)
EXTENDS Integers, Sequences, FiniteSets, TLC

\* ------------------------------------------------------------- bounds
\* regions the cascade may return for one image
MaxFaces == 2
\* identities of the artifact the recognition specification puts on disk
MaxStudents == 1
\* largest raw distance tried by the scoring specification
MaxDist == 150
\* raw distances below zero tried: -NegDist .. -1
NegDist == 5

\* original image files of one identity folder tried
MaxFiles == 3
\* largest quota (min_images) the balancer is tried with
MaxQuota == 3
\* identity folders under data/ in a training run
MaxIds == 2
\* the quota of a training run (train_face_model passes min_images=100)
Quota == 2
\* quick_test looks at faces_array[:5]
QuickTestSamples == 5

\* angle_variations[:2]: the corner configurations apply_virtual_angles uses
UsedVariations == 2
\* angled_faces[:4]: the most variants apply_virtual_angles returns
MaxAngledFaces == 4

\* identity folder names, in lexicographic order
StudentNames == <<"alice", "bob", "carol", "dave">>

\* Python's None as a returned name
NONE == "<None>"

\* raw distances the recognition handlers are driven with: a negative one,
\* one well inside the threshold, one exactly on it, and one above 100
PredDistances == {0 - NegDist, 35, 60, MaxDist}

\* raw distances of the scoring specification
ScoreDistances == {0 - NegDist, 0, 1, 35, 59, 60, 99, 100, 101, MaxDist}

\* mean pixel intensities of a warped face tried: both sides of the floor of 20
MeanSamples == {20, 21}

Max(a, b) == IF a >= b THEN a ELSE b

Min(a, b) == IF a <= b THEN a ELSE b

\* ------------------------------------------------------------- images
Op(name, a, b, c) == [a |-> a, b |-> b, c |-> c, op |-> name]

\* an image as handed to a recognition entry point
InputImages(chans) == [id : {0}, chan : chans, nfaces : 0..MaxFaces, ops : {<<>>}]

CvtColorGray(img) == [img EXCEPT !.chan = "gray"]

EqualizeHist(img) == [img EXCEPT !.ops = Append(@, Op("equalizeHist", 0, 0, 0))]

\* detectMultiScale: the regions found, each remembering the call that found it
\* (scaleFactor in tenths)
DetectMultiScale(img, scaleFactor, minNeighbors, minSize) ==
    [i \in 1..img.nfaces |->
        [idx |-> i, det |-> Op("detectMultiScale", scaleFactor, minNeighbors, minSize)]]

\* gray[y:y+h, x:x+w] for a detected region
Crop(gray, box) ==
    [gray EXCEPT !.ops = Append(Append(@, box.det), Op("crop", box.idx, 0, 0))]

Resize(img, w, h) == [img EXCEPT !.ops = Append(@, Op("resize", w, h, 0))]

GaussianBlur(img, kw, kh, sigma) ==
    [img EXCEPT !.ops = Append(@, Op("GaussianBlur", kw, kh, sigma))]

\* warpPerspective with the matrix of corner configuration i
WarpPerspective(img, i) == [img EXCEPT !.ops = Append(@, Op("warpPerspective", i, 0, 0))]

Flip(img, flipCode) == [img EXCEPT !.ops = Append(@, Op("flip", flipCode, 0, 0))]

\* an original photograph as cv2.imread(path, IMREAD_GRAYSCALE) returns it
Original(id, nfaces) == [id |-> id, chan |-> "gray", nfaces |-> nfaces, ops |-> <<>>]

Originals == {Original(id, nf) : id \in 1..MaxFiles, nf \in 0..MaxFaces}

\* ------------------------------------------------------------- artifact
\* A file on disk, and an object in memory, is [st, run, labs, map]:
\*   st   "absent" | "corrupt" | "ok" for a file, "none" | "empty" | "ok" in memory
\*   run  the training run that wrote it
\*   labs the labels a model was trained on ({} for a label map)
\*   map  the label map, label l at index l+1 (<<>> for a model)
Absent == [st |-> "absent", run |-> 0, labs |-> {}, map |-> <<>>]

Corrupt == [st |-> "corrupt", run |-> 0, labs |-> {}, map |-> <<>>]

PyNone == [st |-> "none", run |-> 0, labs |-> {}, map |-> <<>>]

\* LBPHFaceRecognizer_create(): a recognizer that was never trained or read
EmptyRecognizer == [st |-> "empty", run |-> 0, labs |-> {}, map |-> <<>>]

\* the model a run writes after training on samples of the labels labs
Model(run, labs) == [st |-> "ok", run |-> run, labs |-> labs, map |-> <<>>]

\* the label map a run writes: label l is names[l + 1]
Labels(run, names) == [st |-> "ok", run |-> run, labs |-> {}, map |-> names]

\* the artifact of a run over the first k identity folders, each with samples
ModelOf(run, k) == Model(run, 0..(k - 1))

LabelsOf(run, k) == Labels(run, SubSeq(StudentNames, 1, k))

\* what the recognition specification finds on disk
ModelFiles == {Absent, Corrupt, ModelOf(1, MaxStudents)}

LabelFiles == {Absent, Corrupt, LabelsOf(1, MaxStudents)}

\* dict.get(label, default) on a label map
DictGet(enc, label, default) ==
    IF label + 1 \in DOMAIN enc.map THEN enc.map[label + 1] ELSE default

\* what recognizer.predict may do on one crop: raise, or return (label, distance);
\* label -1 is LBPH's "nothing within the threshold"
PredOutcomes(rec) ==
    {[label |-> -1, raise |-> TRUE, dist |-> 0]}
    \cup (IF rec.st = "ok"
          THEN [label : {-1} \cup rec.labs, raise : {FALSE}, dist : PredDistances]
          ELSE {})

VARIABLES
    proc,        \* the running program: "train_face" (testing.py) | "webapp" (app.py)
    modelFile,   \* model/face_model.yml
    labelFile,   \* model/label_encoder.pkl
    tf,          \* a Train_face FaceRecognizer: [recognizer, label_encoder]
    web,         \* the web application's global face_recognizer
    ready,       \* app.py's face_recognition_ready: "unset" | "yes" | "no"
    res,         \* what the last call returned
    score,       \* the confidence computed last: [site, d, c]
    prev,        \* the confidence computed before it
    pre,         \* the images the last two preprocessing paths handed to the classifier
    angIn,       \* apply_virtual_angles: the face and what OpenCV does with it
    angOut,      \* apply_virtual_angles: what it returned
    balIn,       \* generate_in_memory_training_data: the folder and the quota
    balOut,      \* generate_in_memory_training_data: what it returned
    data,        \* data/: the identity folders in sorted order, folder k named StudentNames[k]
    tpc,         \* where train_face_model is
    run,         \* the number of the training run
    faces_list,
    labels_list,
    label_dict,  \* label l is label_dict[l + 1]
    current_label,
    faces_array,
    labels_array,
    fitted,      \* train_face_model's recognizer
    tret,        \* what train_face_model returned: "none" | "True" | "False" | "raised"
    fits,        \* calls of recognizer.train in this run
    written,     \* the files this run wrote
    disk0,       \* the two files as the run found them
    quick,       \* what quick_test counted
    student_folders, \* train_face_model's sorted listing: positions in data
    image_lists,     \* the image_list the balancer returned, identity by identity
    ld,          \* a FaceRecognizer of another process inside load_model
    heldIn,      \* test_on_existing_images: data/ and the two files it finds
    heldOut      \* test_on_existing_images: what it scored and returned

recogVars == <<proc, modelFile, labelFile, tf, web, ready, res>>

scoreVars == <<score, prev>>

preVars == <<pre>>

angVars == <<angIn, angOut>>

balVars == <<balIn, balOut>>

trainVars == <<data, tpc, run, faces_list, labels_list, label_dict, current_label,
               faces_array, labels_array, fitted, tret, fits, written, disk0, quick,
               student_folders, image_lists>>

heldVars == <<heldIn, heldOut>>

vars == <<recogVars, scoreVars, preVars, angVars, balVars, trainVars, ld, heldVars>>

\* what the actions of one part leave alone
notRecog == <<scoreVars, preVars, angVars, balVars, trainVars, ld, heldVars>>

notScore == <<recogVars, preVars, angVars, balVars, trainVars, ld, heldVars>>

notPre == <<recogVars, scoreVars, angVars, balVars, trainVars, ld, heldVars>>

notAng == <<recogVars, scoreVars, preVars, balVars, trainVars, ld, heldVars>>

notBal == <<recogVars, scoreVars, preVars, angVars, trainVars, ld, heldVars>>

\* a training run touches the two files and nothing else of the recognition part
notTrain == <<proc, tf, web, ready, res, scoreVars, preVars, angVars, balVars, heldVars>>

\* the record every call leaves in res
Result(who, kind, ret, name, conf, raised, label, dist, fed) ==
    [name |-> name, label |-> label, dist |-> dist, who |-> who, kind |-> kind,
     ret |-> ret, conf |-> conf, raised |-> raised, fed |-> fed, perr |-> FALSE]

\* the same record for a call during which predict raised
PredictRaised(r) == [r EXCEPT !.perr = TRUE]

Idle == Result("nobody", "idle", FALSE, NONE, 0, FALSE, -1, 0, <<>>)

NoScore == [c |-> 0, site |-> "none", d |-> 0]

NoFed == [fed |-> <<>>, path |-> "none"]

NoPre == [last |-> NoFed, before |-> NoFed]

NoAngIn == [face |-> Original(0, 0), outs |-> <<>>]

NoAngOut == [raised |-> FALSE, done |-> FALSE, faces |-> <<>>]

NoBalIn == [folder |-> <<>>, min_images |-> 0]

NoBalOut == [done |-> FALSE, images |-> <<>>]

NoQuick ==
    [faces |-> <<>>,
     tested |-> 0,
     correct |-> 0,
     learning |-> FALSE,
     labels |-> <<>>,
     preds |-> <<>>]

\* test_on_existing_images not called yet
NoHeldIn == [data |-> <<>>, labels |-> Absent, model |-> Absent]

NoHeldOut == [ret |-> 0,
              raised |-> FALSE,
              done |-> FALSE,
              tested |-> <<>>,
              correct |-> 0,
              total |-> 0,
              tests |-> <<>>]

LdFresh == [ret |-> FALSE, pc |-> "idle", inst |-> [recognizer |-> PyNone, label_encoder |-> PyNone]]

TfFresh == [recognizer |-> PyNone, label_encoder |-> PyNone]

WebFresh == [recognizer |-> PyNone, label_encoder |-> PyNone, face_cascade |-> FALSE]

\* ------------------------------------------ Train_face/face_utils.py
\* load_model reporting success although pickle.load failed
TfLoadModelIgnoresLabelError(inst, mf, lf) ==
    IF mf.st # "absent" /\ lf.st # "absent"
    THEN IF mf.st = "corrupt"
         THEN [ret |-> FALSE, inst |-> [inst EXCEPT !.recognizer = EmptyRecognizer]]
         ELSE IF lf.st = "corrupt"
              THEN [ret |-> TRUE, inst |-> [inst EXCEPT !.recognizer = mf]]
              ELSE [ret |-> TRUE, inst |-> [recognizer |-> mf, label_encoder |-> lf]]
    ELSE [ret |-> FALSE, inst |-> inst]

\* load_model: [inst, ret]; an exception of read / pickle.load is caught
TfLoadModel(inst, mf, lf) ==
    IF mf.st # "absent" /\ lf.st # "absent"
    THEN IF mf.st = "corrupt"
         THEN [ret |-> FALSE, inst |-> [inst EXCEPT !.recognizer = EmptyRecognizer]]
         ELSE IF lf.st = "corrupt"
              THEN [ret |-> FALSE, inst |-> [inst EXCEPT !.recognizer = mf]]
              ELSE [ret |-> TRUE, inst |-> [recognizer |-> mf, label_encoder |-> lf]]
    ELSE [ret |-> FALSE, inst |-> inst]

TfDetectFaces(image) ==
    LET gray0 == IF image.chan = "bgr" THEN CvtColorGray(image) ELSE image
        gray == EqualizeHist(gray0)
    IN [gray |-> gray, faces |-> DetectMultiScale(gray, 11, 3, 60)]

TfPreprocessFace(face_roi) ==
    GaussianBlur(EqualizeHist(Resize(face_roi, 100, 100)), 3, 3, 0)

TfConfidencePercent(confidence) == Max(0, 100 - Min(confidence, 100))

\* the accept test of recognize_face: strictly above 40 and a known label
TfAccepts(confidence_percent, student_name) ==
    confidence_percent > 40 /\ student_name # NONE

\* recognize_face: [inst, r]; pred is what predict does on the crop
TfRecognizeFace(inst, mf, lf, image, pred) ==
    LET l == IF inst.recognizer.st = "none" \/ inst.label_encoder.st = "none"
             THEN TfLoadModel(inst, mf, lf)
             ELSE [ret |-> TRUE, inst |-> inst]
        det == TfDetectFaces(image)
        face_roi == TfPreprocessFace(Crop(det.gray, det.faces[1]))
        confidence_percent == TfConfidencePercent(pred.dist)
        student_name == DictGet(l.inst.label_encoder, pred.label, NONE)
    IN [r |-> IF ~l.ret
              THEN Result("tf", "recognize", FALSE, NONE, 0, FALSE, -1, 0, <<>>)
              ELSE IF Len(det.faces) = 0
              THEN Result("tf", "recognize", TRUE, NONE, 0, FALSE, -1, 0, <<>>)
              ELSE IF pred.raise
              THEN PredictRaised(
                       Result("tf", "recognize", TRUE, NONE, 0, FALSE, -1, 0, <<face_roi>>))
              ELSE IF TfAccepts(confidence_percent, student_name)
              THEN Result("tf", "recognize", TRUE, student_name, confidence_percent,
                          FALSE, pred.label, pred.dist, <<face_roi>>)
              ELSE Result("tf", "recognize", TRUE, NONE, confidence_percent,
                          FALSE, pred.label, pred.dist, <<face_roi>>),
        inst |-> l.inst]

\* ------------------------------------------ face_recognition_utils.py
WebLoadModel(inst, mf, lf) ==
    IF mf.st = "absent" \/ lf.st = "absent"
    THEN [ret |-> FALSE, inst |-> inst]
    ELSE IF mf.st = "corrupt"
         THEN [ret |-> FALSE, inst |-> [inst EXCEPT !.recognizer = EmptyRecognizer]]
         ELSE IF lf.st = "corrupt"
              THEN [ret |-> FALSE, inst |-> [inst EXCEPT !.recognizer = mf]]
              ELSE [ret |-> TRUE,
                    inst |-> [recognizer |-> mf, label_encoder |-> lf,
                              face_cascade |-> TRUE]]

WebDetectFaces(inst, image) ==
    IF ~inst.face_cascade
    THEN [gray |-> image, faces |-> <<>>]
    ELSE LET gray == EqualizeHist(CvtColorGray(image))
         IN [gray |-> gray, faces |-> DetectMultiScale(gray, 11, 3, 60)]

\* preprocess_face without its histogram equalization
WebPreprocessFaceNoEqualize(face_roi) == GaussianBlur(Resize(face_roi, 100, 100), 3, 3, 0)

WebPreprocessFace(face_roi) ==
    GaussianBlur(EqualizeHist(Resize(face_roi, 100, 100)), 3, 3, 0)

WebConfidencePercent(confidence) == Max(0, 100 - Min(confidence, 100))

\* results.sort(key=confidence, reverse=True)[0]: the first entry of greatest confidence
BestMatch(results) ==
    LET i == CHOOSE i \in 1..Len(results) :
                 /\ \A j \in 1..Len(results) : results[j].confidence <= results[i].confidence
                 /\ \A j \in 1..(i - 1) : results[j].confidence < results[i].confidence
    IN results[i]

\* recognize_face_with_box (the returned image left out); preds[i] is what
\* predict does on the crop of region i.  predict is not guarded: an
\* exception leaves the method.
WebRecognizeFaceWithBox(inst, image, preds) ==
    LET det == WebDetectFaces(inst, image)
        faces == det.faces
        crops == [i \in 1..Len(faces) |-> WebPreprocessFace(Crop(det.gray, faces[i]))]
        results == [i \in 1..Len(faces) |->
                       [name |-> DictGet(inst.label_encoder, preds[i].label, "Unknown"),
                        label |-> preds[i].label,
                        dist |-> preds[i].dist,
                        confidence |-> WebConfidencePercent(preds[i].dist)]]
        best_match == BestMatch(results)
    IN IF inst.recognizer.st = "none" \/ inst.label_encoder.st = "none"
       THEN Result("web", "recognize", FALSE, NONE, 0, FALSE, -1, 0, <<>>)
       ELSE IF Len(faces) = 0
       THEN Result("web", "recognize", TRUE, NONE, 0, FALSE, -1, 0, <<>>)
       ELSE IF \E i \in 1..Len(faces) : preds[i].raise
       THEN LET k == CHOOSE k \in 1..Len(faces) :
                         preds[k].raise /\ \A j \in 1..(k - 1) : ~preds[j].raise
            IN PredictRaised(
                   Result("web", "recognize", TRUE, NONE, 0, TRUE, -1, 0, SubSeq(crops, 1, k)))
       ELSE Result("web", "recognize", TRUE, best_match.name, best_match.confidence,
                   FALSE, best_match.label, best_match.dist, crops)

\* ------------------------------------------ Train_face/training.py
\* A file of an identity folder is [id, kind, nfaces, outs]:
\*   id     which file it is
\*   kind   "other"  not a .png/.jpg/.jpeg name
\*          "broken" an image name cv2.imread cannot decode
\*          "image"  an image cv2.imread decodes
\*   nfaces the regions the cascade finds in it
\*   outs   what OpenCV does with its face for each corner configuration
\* A folder is the sequence of its files in os.listdir order.
File(id, kind, nfaces, outs) == [id |-> id, nfaces |-> nfaces, kind |-> kind, outs |-> outs]

\* every permutation of a sequence: what random.shuffle may leave
PermsOf(seq) ==
    LET n == Len(seq)
    IN {[i \in 1..n |-> seq[f[i]]] :
           f \in {g \in [1..n -> 1..n] : \A a, b \in 1..n : a # b => g[a] # g[b]}}

\* the positions of the files of folder whose kind is in kinds, in order
RECURSIVE SelectIdx(_, _, _)
SelectIdx(folder, kinds, i) ==
    IF i > Len(folder)
    THEN <<>>
    ELSE (IF folder[i].kind \in kinds THEN <<i>> ELSE <<>>) \o SelectIdx(folder, kinds, i + 1)

\* the balancer drawing with replacement although the folder has enough files
GenerateInMemoryTrainingDataDrawsAlways(folder, min_images) ==
    LET image_files == SelectIdx(folder, {"broken", "image"}, 1)
        decoded == SelectIdx(folder, {"image"}, 1)
        loaded_images == [k \in 1..Len(decoded) |->
                             Original(folder[decoded[k]].id, folder[decoded[k]].nfaces)]
    IN IF image_files = <<>> \/ loaded_images = <<>>
       THEN {<<>>}
       ELSE [1..min_images -> {loaded_images[k] : k \in 1..Len(loaded_images)}]

\* generate_in_memory_training_data: the lists it may return
GenerateInMemoryTrainingData(folder, min_images) ==
    LET image_files == SelectIdx(folder, {"broken", "image"}, 1)
        original_count == Len(image_files)
        decoded == SelectIdx(folder, {"image"}, 1)
        loaded_images == [k \in 1..Len(decoded) |->
                             Original(folder[decoded[k]].id, folder[decoded[k]].nfaces)]
    IN IF image_files = <<>>
       THEN {<<>>}
       ELSE IF loaded_images = <<>>
       THEN {<<>>}
       ELSE IF original_count >= min_images
       THEN {SubSeq(shuffled, 1, Min(min_images, Len(shuffled))) : shuffled \in PermsOf(loaded_images)}
       ELSE {loaded_images \o dups :
                dups \in [1..(min_images - Len(loaded_images)) ->
                             {loaded_images[k] : k \in 1..Len(loaded_images)}]}

\* what OpenCV does for one corner configuration: getPerspectiveTransform and
\* warpPerspective each return or raise, and the warped face has a mean intensity
AngleOutcomes ==
    {[solve |-> "raise", warp |-> "ok", mean |-> 0],
     [solve |-> "ok", warp |-> "raise", mean |-> 0]}
    \cup [solve : {"ok"}, warp : {"ok"}, mean : MeanSamples]

\* the loop of apply_virtual_angles over configurations i..n: the accepted
\* variants, or a raise of getPerspectiveTransform, which no try guards
RECURSIVE AngleLoop(_, _, _, _)
AngleLoop(face_roi, outs, i, n) ==
    IF i > n
    THEN [raised |-> FALSE, faces |-> <<>>]
    ELSE IF outs[i].solve = "raise"
    THEN [raised |-> TRUE, faces |-> <<>>]
    ELSE LET rest == AngleLoop(face_roi, outs, i + 1, n)
             angled_face == WarpPerspective(face_roi, i)
             accepted == IF outs[i].warp = "ok" /\ outs[i].mean > 20
                         THEN <<angled_face>>
                         ELSE <<>>
         IN [raised |-> rest.raised, faces |-> accepted \o rest.faces]

\* apply_virtual_angles returning angled_faces[:3]
ApplyVirtualAnglesTruncate3(face_roi, outs) ==
    LET loop == AngleLoop(face_roi, outs, 1, UsedVariations)
        angled_faces == <<face_roi>> \o loop.faces \o <<Flip(face_roi, 1)>>
    IN IF loop.raised
       THEN [raised |-> TRUE, faces |-> <<>>]
       ELSE [raised |-> FALSE, faces |-> SubSeq(angled_faces, 1, Min(3, Len(angled_faces)))]

\* apply_virtual_angles: [raised, faces]
ApplyVirtualAngles(face_roi, outs) ==
    LET loop == AngleLoop(face_roi, outs, 1, UsedVariations)
        angled_faces == <<face_roi>> \o loop.faces \o <<Flip(face_roi, 1)>>
    IN IF loop.raised
       THEN [raised |-> TRUE, faces |-> <<>>]
       ELSE [raised |-> FALSE,
             faces |-> SubSeq(angled_faces, 1, Min(MaxAngledFaces, Len(angled_faces)))]

\* the body of the image loop taking the whole picture as the sample when no
\* face is located
TrainProcessImageKeepsFaceless(image, outs) ==
    LET gray == EqualizeHist(image)
        faces == DetectMultiScale(gray, 11, 3, 60)
        face_roi == GaussianBlur(EqualizeHist(Resize(Crop(gray, faces[1]), 100, 100)), 3, 3, 0)
    IN IF Len(faces) > 0
       THEN ApplyVirtualAngles(face_roi, outs)
       ELSE [raised |-> FALSE, faces |-> <<Resize(gray, 100, 100)>>]

\* train_face_model, the body of "for img_idx, image in enumerate(image_list)":
\* the samples one balanced image adds to faces_list
TrainProcessImage(image, outs) ==
    LET gray == EqualizeHist(image)
        faces == DetectMultiScale(gray, 11, 3, 60)
        face_roi == GaussianBlur(EqualizeHist(Resize(Crop(gray, faces[1]), 100, 100)), 3, 3, 0)
    IN IF Len(faces) > 0
       THEN ApplyVirtualAngles(face_roi, outs)
       ELSE [raised |-> FALSE, faces |-> <<>>]

\* test_on_existing_images, the preprocessing of one original: the crops handed to predict
HeldOutProcessImage(img) ==
    LET gray == EqualizeHist(img)
        faces == DetectMultiScale(gray, 11, 3, 60)
        face_roi == GaussianBlur(EqualizeHist(Resize(Crop(gray, faces[1]), 100, 100)), 3, 3, 0)
    IN IF Len(faces) > 0 THEN <<face_roi>> ELSE <<>>

\* the clamp without the subtraction from 100
QuickConfidencePercentNoInvert(confidence) == Max(0, Min(confidence, 100))

QuickConfidencePercent(confidence) == Max(0, 100 - Min(confidence, 100))

HeldOutConfidencePercent(confidence) == Max(0, 100 - Min(confidence, 100))

\* ------------------------------------------------------------- actions
\* the artifact on disk is replaced, removed or damaged between calls
DiskChange ==
    /\ \E mf \in ModelFiles, lf \in LabelFiles :
          /\ <<mf, lf>> # <<modelFile, labelFile>>
          /\ modelFile' = mf
          /\ labelFile' = lf
    /\ res' = Idle
    /\ UNCHANGED <<proc, tf, web, ready>>
    /\ UNCHANGED notRecog

\* the caller of the last recognition has its answer: calls are made one after another
NoCallPending == res.kind \in {"idle", "load"}

\* the caller takes the (name, confidence) it was returned, or the exception
ResultTaken ==
    /\ ~NoCallPending
    /\ res' = Idle
    /\ UNCHANGED <<proc, modelFile, labelFile, tf, web, ready>>
    /\ UNCHANGED notRecog

\* FaceRecognizer() of Train_face/testing.py
TfNew ==
    /\ proc = "train_face"
    /\ tf # TfFresh
    /\ tf' = TfFresh
    /\ res' = Idle
    /\ UNCHANGED <<proc, modelFile, labelFile, web, ready>>
    /\ UNCHANGED notRecog

\* recognizer.load_model() as testing.py calls it: on an instance that holds no model
TfLoad ==
    /\ proc = "train_face"
    /\ tf.label_encoder.st = "none"
    /\ LET l == TfLoadModel(tf, modelFile, labelFile)
       IN /\ tf' = l.inst
          /\ res' = Result("tf", "load", l.ret, NONE, 0, FALSE, -1, 0, <<>>)
    /\ UNCHANGED <<proc, modelFile, labelFile, web, ready>>
    /\ UNCHANGED notRecog

TfRecognize ==
    /\ proc = "train_face"
    /\ NoCallPending
    /\ \E image \in InputImages({"bgr", "gray"}) :
          LET l == IF tf.recognizer.st = "none" \/ tf.label_encoder.st = "none"
                   THEN TfLoadModel(tf, modelFile, labelFile).inst
                   ELSE tf
          IN \E pred \in PredOutcomes(l.recognizer) :
                LET out == TfRecognizeFace(tf, modelFile, labelFile, image, pred)
                IN /\ tf' = out.inst
                   /\ res' = out.r
    /\ UNCHANGED <<proc, modelFile, labelFile, web, ready>>
    /\ UNCHANGED notRecog

\* app.py at import: face_recognition_ready = init_face_recognition()
AppInit ==
    /\ proc = "webapp"
    /\ ready = "unset"
    /\ LET l == WebLoadModel(web, modelFile, labelFile)
       IN /\ web' = l.inst
          /\ ready' = IF l.ret THEN "yes" ELSE "no"
          /\ res' = Result("web", "load", l.ret, NONE, 0, FALSE, -1, 0, <<>>)
    /\ UNCHANGED <<proc, modelFile, labelFile, tf>>
    /\ UNCHANGED notRecog

\* face_recognizer.recognize_face(image) / recognize_face_with_box(image)
WebRecognize ==
    /\ proc = "webapp"
    /\ NoCallPending
    /\ \E image \in InputImages({"bgr"}) :
          \E preds \in [1..image.nfaces -> PredOutcomes(web.recognizer)] :
             res' = WebRecognizeFaceWithBox(web, image, preds)
    /\ UNCHANGED <<proc, modelFile, labelFile, tf, web, ready>>
    /\ UNCHANGED notRecog

\* app.py /api/test-face-recognition: the readiness gate, then recognize_face
HttpTestFaceRecognition ==
    /\ proc = "webapp"
    /\ NoCallPending
    /\ ready # "unset"
    /\ IF ready = "no"
       THEN res' = Result("http", "not_loaded", FALSE, NONE, 0, FALSE, -1, 0, <<>>)
       ELSE \E image \in InputImages({"bgr"}) :
               \E preds \in [1..image.nfaces -> PredOutcomes(web.recognizer)] :
                  LET r == WebRecognizeFaceWithBox(web, image, preds)
                  IN res' = [r EXCEPT !.who = "http",
                                      !.kind = IF r.raised THEN "error" ELSE "recognize",
                                      !.raised = FALSE]
    /\ UNCHANGED <<proc, modelFile, labelFile, tf, web, ready>>
    /\ UNCHANGED notRecog

\* the variables a specification does not use stay at these values
ScoreIdle == score = NoScore /\ prev = NoScore

PreIdle == pre = NoPre

AngIdle == angIn = NoAngIn /\ angOut = NoAngOut

BalIdle == balIn = NoBalIn /\ balOut = NoBalOut

TrainIdle ==
    /\ data = <<>>
    /\ tpc = "idle"
    /\ run = 0
    /\ faces_list = <<>>
    /\ labels_list = <<>>
    /\ label_dict = <<>>
    /\ current_label = 0
    /\ faces_array = <<>>
    /\ labels_array = <<>>
    /\ fitted = PyNone
    /\ tret = "none"
    /\ fits = 0
    /\ written = {}
    /\ disk0 = <<Absent, Absent>>
    /\ quick = NoQuick
    /\ student_folders = <<>>
    /\ image_lists = <<>>

LdIdle == ld = LdFresh

HeldIdle == heldIn = NoHeldIn /\ heldOut = NoHeldOut

RecogIdle ==
    /\ proc = "none"
    /\ modelFile = Absent
    /\ labelFile = Absent
    /\ tf = TfFresh
    /\ web = WebFresh
    /\ ready = "unset"
    /\ res = Idle

RecogInit ==
    /\ proc \in {"train_face", "webapp"}
    /\ modelFile \in ModelFiles
    /\ labelFile \in LabelFiles
    /\ tf = TfFresh
    /\ web = WebFresh
    /\ ready = "unset"
    /\ res = Idle
    /\ ScoreIdle
    /\ PreIdle
    /\ AngIdle
    /\ BalIdle
    /\ TrainIdle
    /\ LdIdle
    /\ HeldIdle

RecogNext ==
    \/ DiskChange
    \/ TfNew
    \/ TfLoad
    \/ TfRecognize
    \/ AppInit
    \/ WebRecognize
    \/ HttpTestFaceRecognition
    \/ ResultTaken

SpecRecog == RecogInit /\ [][RecogNext]_vars

\* ------------------------------------------------- recognition claims
\* the label map a recognition of res.who looked the label up in
LoadedLabels == IF res.who = "tf" THEN tf.label_encoder ELSE web.label_encoder

\* res is what a recognition entry point returned to its caller
Returned == res.kind = "recognize" /\ res.who \in {"tf", "web"} /\ ~res.raised

\* C1: every recognition entry point returns a name only if the confidence is
\* strictly above 40 and the predicted label is a key of the loaded label map,
\* and returns None with the computed confidence in every other case.
C1_NameOnlyAboveThresholdAndKnown ==
    Returned =>
        /\ res.name # NONE =>
              /\ res.conf > 40
              /\ res.label + 1 \in DOMAIN LoadedLabels.map
              /\ res.name = LoadedLabels.map[res.label + 1]
        /\ (res.conf <= 40 \/ res.label + 1 \notin DOMAIN LoadedLabels.map) =>
              res.name = NONE

\* C1, Train_face half: recognize_face of Train_face/face_utils.py alone keeps
\* the decision rule.
C1_TrainFaceDecision ==
    (Returned /\ res.who = "tf") =>
        (res.name # NONE <=>
            /\ res.fed # <<>>
            /\ ~res.perr
            /\ res.conf > 40
            /\ res.label + 1 \in DOMAIN tf.label_encoder.map)

\* C5: the confidence returned with a recognition result lies in [0, 100],
\* whatever raw distance predict returned and whatever the outcome.
C5_ConfidenceInRange ==
    Returned => (0 <= res.conf /\ res.conf <= 100)

\* C7: when predict raises, the entry point returns no match with confidence 0
\* and the exception does not reach its caller.
C7_PredictErrorAbsorbed ==
    (res.kind = "recognize" /\ res.who \in {"tf", "web"} /\ res.perr) =>
        (~res.raised /\ res.name = NONE /\ res.conf = 0)

\* C7, Train_face half: recognize_face of Train_face/face_utils.py absorbs it.
C7_TrainFaceAbsorbs ==
    (res.kind = "recognize" /\ res.who = "tf" /\ res.perr) =>
        (~res.raised /\ res.name = NONE /\ res.conf = 0)

TfReady == tf.recognizer.st # "none" /\ tf.label_encoder.st # "none"

WebReady == web.recognizer.st # "none" /\ web.label_encoder.st # "none"

\* C8: load_model returns True exactly when both files are present and both
\* deserialize, and never raises; a recognition on an instance that holds no
\* loaded model answers (None, 0) without raising, and the HTTP route answers
\* "model not loaded" when the load at start-up failed.
C8_LoadNeedsBothFiles ==
    /\ res.kind = "load" =>
          /\ ~res.raised
          /\ res.ret <=> (modelFile.st = "ok" /\ labelFile.st = "ok")
    /\ (res.kind = "recognize" /\ res.who = "tf" /\ ~TfReady) =>
          (res.name = NONE /\ res.conf = 0 /\ ~res.raised)
    /\ (res.kind = "recognize" /\ res.who = "web" /\ ~WebReady) =>
          (res.name = NONE /\ res.conf = 0 /\ ~res.raised)
    /\ (tf.label_encoder.st = "ok" => tf.recognizer.st = "ok")
    /\ (ready = "yes" <=> web.label_encoder.st = "ok")
    /\ (ready = "yes" => web.recognizer.st = "ok" /\ web.face_cascade)
    /\ (res.who = "http" /\ ready = "no") => res.kind = "not_loaded"
    /\ (res.who = "http" /\ ready = "yes") => res.kind # "not_loaded"

\* C8 witness: a load failed on a corrupt label map, left a recognizer without
\* a label map behind, and the next request was answered (None, 0).
C8_Witness ==
    /\ res.kind = "recognize"
    /\ res.who = "tf"
    /\ tf.recognizer.st = "ok"
    /\ tf.label_encoder.st = "none"
    /\ labelFile.st = "corrupt"
    /\ res.name = NONE
    /\ res.conf = 0

\* the indices of the detected regions an image fed to predict was cropped from
\* (index 1 here is faces[0] of the code)
RegionsUsed(img) ==
    {img.ops[j].a : j \in {i \in DOMAIN img.ops : img.ops[i].op = "crop"}}

\* C18: when the face locator returns more than one region, every path uses
\* only the region at index 0 for the crop and the result; no other region is
\* cropped and fed to the classifier.
C18_OnlyRegionZero ==
    \A k \in DOMAIN res.fed : RegionsUsed(res.fed[k]) \subseteq {1}

\* the Train_face half of C18: recognize_face of Train_face/face_utils.py
\* crops faces[0] alone
C18_TrainFaceUsesRegionZero ==
    res.who = "tf" => \A k \in DOMAIN res.fed : RegionsUsed(res.fed[k]) \subseteq {1}

\* ------------------------------------------------ confidence scoring
\* one confidence computed at a site, from a raw distance d
Scored(site, d, c) ==
    /\ prev' = score
    /\ score' = [c |-> c, site |-> site, d |-> d]
    /\ UNCHANGED notScore

\* face_utils.py, recognize_face
ScoreTf == \E d \in ScoreDistances : Scored("tf", d, TfConfidencePercent(d))

\* face_recognition_utils.py, recognize_face_with_box
ScoreWeb == \E d \in ScoreDistances : Scored("web", d, WebConfidencePercent(d))

\* training.py, quick_test
ScoreQuick == \E d \in ScoreDistances : Scored("quick_test", d, QuickConfidencePercent(d))

\* training.py, test_on_existing_images
ScoreHeldOut ==
    \E d \in ScoreDistances :
        Scored("test_on_existing_images", d, HeldOutConfidencePercent(d))

ScoreInit == RecogIdle /\ ScoreIdle /\ PreIdle /\ AngIdle /\ BalIdle /\ TrainIdle /\ LdIdle /\ HeldIdle

ScoreNext == ScoreTf \/ ScoreWeb \/ ScoreQuick \/ ScoreHeldOut

SpecScore == ScoreInit /\ [][ScoreNext]_vars

\* C6: wherever a confidence is computed it is max(0, 100 - min(d, 100)):
\* 100 - d below 100 and 0 from 100 on, so 100 at d = 0, 65 at 35, 0 at 150,
\* and never larger for a larger distance.
C6_ScoreFormula ==
    /\ \A r \in {score, prev} :
          r.site # "none" =>
             /\ r.d >= 100 => r.c = 0
             /\ r.d < 100 => r.c = 100 - r.d
             /\ r.d = 0 => r.c = 100
             /\ r.d = 35 => r.c = 65
             /\ r.d = 150 => r.c = 0
    /\ (score.site # "none" /\ prev.site # "none" /\ prev.d <= score.d) => prev.c >= score.c
    /\ (score.site # "none" /\ prev.site # "none" /\ score.d <= prev.d) => score.c >= prev.c

\* C6 witness: quick_test scored 35 as 65 after the web recognizer scored 150 as 0.
C6_Witness ==
    /\ score = [c |-> 65, site |-> "quick_test", d |-> 35]
    /\ prev = [c |-> 0, site |-> "web", d |-> 150]

\* ---------------------------------------------- apply_virtual_angles
AngApply ==
    /\ ~angOut.done
    /\ LET r == ApplyVirtualAngles(angIn.face, angIn.outs)
       IN angOut' = [raised |-> r.raised, done |-> TRUE, faces |-> r.faces]
    /\ UNCHANGED <<angIn, notAng>>

\* the next face is handed to apply_virtual_angles
AngNextFace ==
    /\ angOut.done
    /\ \E image \in Originals, outs \in [1..UsedVariations -> AngleOutcomes] :
          /\ image.nfaces > 0
          /\ angIn' = [face |-> HeldOutProcessImage(image)[1], outs |-> outs]
    /\ angOut' = NoAngOut
    /\ UNCHANGED notAng

AngInit ==
    /\ \E image \in Originals, outs \in [1..UsedVariations -> AngleOutcomes] :
          /\ image.nfaces > 0
          /\ angIn = [face |-> HeldOutProcessImage(image)[1], outs |-> outs]
    /\ angOut = NoAngOut
    /\ RecogIdle
    /\ ScoreIdle
    /\ PreIdle
    /\ BalIdle
    /\ TrainIdle
    /\ LdIdle
    /\ HeldIdle

AngNext == AngApply \/ AngNextFace

SpecAngles == AngInit /\ [][AngNext]_vars

\* the accepted perspective variants, in their order: configuration i is kept
\* when the transform was solved, the warp returned and its mean exceeds 20
RECURSIVE AcceptedVariants(_, _, _)
AcceptedVariants(face, outs, i) ==
    IF i > UsedVariations
    THEN <<>>
    ELSE (IF outs[i].warp = "ok" /\ outs[i].mean > 20
          THEN <<WarpPerspective(face, i)>>
          ELSE <<>>) \o AcceptedVariants(face, outs, i + 1)

\* C9: a returned list has 2 to 4 elements, starts with the input unchanged,
\* ends with its horizontal mirror and holds the accepted perspective variants
\* in between; the truncation to 4 never removes the mirrored copy.
C9_AngleListShape ==
    (angOut.done /\ ~angOut.raised) =>
        LET n == Len(angOut.faces)
        IN /\ 2 <= n
           /\ n <= 4
           /\ angOut.faces[1] = angIn.face
           /\ angOut.faces[n] = Flip(angIn.face, 1)
           /\ SubSeq(angOut.faces, 2, n - 1) = AcceptedVariants(angIn.face, angIn.outs, 1)

\* C9 witness: both perspective variants were accepted, so the list is full.
C9_Witness ==
    /\ angOut.done
    /\ ~angOut.raised
    /\ Len(angOut.faces) = 4
    /\ angOut.faces[4] = Flip(angIn.face, 1)

\* C15: when the perspective computation of a corner configuration fails, in
\* getPerspectiveTransform or in warpPerspective, apply_virtual_angles does not
\* raise and returns the original, the other accepted variants and the mirror.
C15_FailedConfigurationSkipped ==
    angOut.done =>
        /\ ~angOut.raised
        /\ angOut.faces = <<angIn.face>> \o AcceptedVariants(angIn.face, angIn.outs, 1)
                              \o <<Flip(angIn.face, 1)>>

\* the half of C15 that holds: a raise of warpPerspective, which the try guards,
\* skips its configuration only
C15_WarpFailureSkipped ==
    (angOut.done /\ \A i \in DOMAIN angIn.outs : angIn.outs[i].solve = "ok") =>
        /\ ~angOut.raised
        /\ angOut.faces = <<angIn.face>> \o AcceptedVariants(angIn.face, angIn.outs, 1)
                              \o <<Flip(angIn.face, 1)>>

\* ------------------------------------------- preprocessing, path by path
\* an instance with a loaded model, as each inference path needs one
LoadedTf == [recognizer |-> ModelOf(1, MaxStudents), label_encoder |-> LabelsOf(1, MaxStudents)]

LoadedWeb ==
    [recognizer |-> ModelOf(1, MaxStudents), label_encoder |-> LabelsOf(1, MaxStudents),
     face_cascade |-> TRUE]

\* predict on a crop, as far as it decides which crops are fed: it answers or raises
PrePredOutcomes == {o \in PredOutcomes(LoadedTf.recognizer) : o.raise \/ (o.label = 0 /\ o.dist = 35)}

\* a path handed the images fed to the classifier
Fed(path, fed) ==
    /\ pre' = [last |-> [fed |-> fed, path |-> path], before |-> pre.last]
    /\ UNCHANGED notPre

\* train_face_model: the samples of one balanced image, which reach recognizer.train
PreTrain ==
    \E image \in Originals, outs \in [1..UsedVariations -> AngleOutcomes] :
        Fed("train", TrainProcessImage(image, outs).faces)

\* test_on_existing_images: the crop of one original, which reaches recognizer.predict
PreHeldOut ==
    \E image \in Originals : Fed("heldout", HeldOutProcessImage(image))

\* Train_face recognize_face: the crop it hands to predict
PreTf ==
    \E image \in InputImages({"bgr", "gray"}) :
        \E pred \in PrePredOutcomes :
            Fed("tf", TfRecognizeFace(LoadedTf, Absent, Absent, image, pred).r.fed)

\* web recognize_face_with_box: the crops it hands to predict
PreWeb ==
    \E image \in InputImages({"bgr"}) :
        \E preds \in [1..image.nfaces -> PrePredOutcomes] :
            Fed("web", WebRecognizeFaceWithBox(LoadedWeb, image, preds).fed)

PreInit == RecogIdle /\ ScoreIdle /\ PreIdle /\ AngIdle /\ BalIdle /\ TrainIdle /\ LdIdle /\ HeldIdle

PreNext == PreTrain \/ PreHeldOut \/ PreTf \/ PreWeb

SpecPre == PreInit /\ [][PreNext]_vars

\* the six steps a crop of region idx has been through, with their parameters
Pipeline(idx) ==
    <<Op("equalizeHist", 0, 0, 0), Op("detectMultiScale", 11, 3, 60), Op("crop", idx, 0, 0),
      Op("resize", 100, 100, 0), Op("equalizeHist", 0, 0, 0), Op("GaussianBlur", 3, 3, 0)>>

\* C2: on all four paths an image reaches the classifier through the same six
\* steps in the same order with the same parameters (equalize, detect with
\* 1.1 / 3 / 60x60, crop, resize to 100x100, equalize, 3x3 blur); the inference
\* paths and the held-out check apply nothing else, and training follows them
\* only by the one synthesis step (a perspective warp or the mirror) of
\* apply_virtual_angles.
C2_SamePreprocessing ==
    /\ \A r \in {pre.last, pre.before} :
          \A k \in DOMAIN r.fed :
             LET img == r.fed[k]
                 n == Len(img.ops)
             IN /\ img.chan = "gray"
                /\ n >= 6
                /\ SubSeq(img.ops, 1, 6) = Pipeline(img.ops[3].a)
                /\ r.path # "train" => n = 6
                /\ r.path = "train" =>
                      /\ n <= 7
                      /\ n = 7 => img.ops[7].op \in {"warpPerspective", "flip"}
    /\ (pre.last.fed # <<>> /\ pre.before.fed # <<>>) =>
          SubSeq(pre.last.fed[1].ops, 1, 6) = SubSeq(pre.before.fed[1].ops, 1, 6)

\* C2 witness: the training path and the web recognizer both fed the classifier.
C2_Witness ==
    /\ pre.last.path = "train"
    /\ Len(pre.last.fed) = 4
    /\ pre.before.path = "web"
    /\ Len(pre.before.fed) = 2

\* --------------------------------- generate_in_memory_training_data
\* what OpenCV does when both perspective variants come out bright
BrightOuts == [i \in 1..UsedVariations |-> [solve |-> "ok", warp |-> "ok", mean |-> 128]]

\* the folders the balancer is tried with: up to MaxFiles files of any kind
BalFolders ==
    UNION {{[i \in 1..n |-> File(i, kinds[i], 1, BrightOuts)] :
               kinds \in [1..n -> {"other", "broken", "image"}]} : n \in 0..MaxFiles}

BalInputs == [folder : BalFolders, min_images : 1..MaxQuota]

BalGenerate ==
    /\ ~balOut.done
    /\ \E images \in GenerateInMemoryTrainingData(balIn.folder, balIn.min_images) :
          balOut' = [done |-> TRUE, images |-> images]
    /\ UNCHANGED <<balIn, notBal>>

\* the next folder and quota are handed to the balancer
BalNextInput ==
    /\ balOut.done
    /\ balIn' \in BalInputs
    /\ balOut' = NoBalOut
    /\ UNCHANGED notBal

BalInit ==
    /\ balIn \in BalInputs
    /\ balOut = NoBalOut
    /\ RecogIdle
    /\ ScoreIdle
    /\ PreIdle
    /\ AngIdle
    /\ TrainIdle
    /\ LdIdle
    /\ HeldIdle

BalNext == BalGenerate \/ BalNextInput

SpecBalance == BalInit /\ [][BalNext]_vars

\* the folder holds at least one file with an image name
HasImageFile(folder) == \E i \in DOMAIN folder : folder[i].kind \in {"broken", "image"}

\* C3: the balancer returns exactly Q images whenever the folder holds at least
\* one original image file, however many there are and whether or not each
\* decodes, and the empty list when it holds none.
C3_ExactlyQuota ==
    balOut.done =>
        /\ HasImageFile(balIn.folder) => Len(balOut.images) = balIn.min_images
        /\ ~HasImageFile(balIn.folder) => balOut.images = <<>>

\* C3, the part the code keeps: with fewer image files than the quota and at least
\* one that decodes, and with at least quota files that all decode, the list has
\* exactly Q images; with no image file it is empty.
C3_QuotaWhenAllDecodeOrShort ==
    balOut.done =>
        LET files == Len(SelectIdx(balIn.folder, {"broken", "image"}, 1))
            good == Len(SelectIdx(balIn.folder, {"image"}, 1))
        IN /\ (good >= 1 /\ (files < balIn.min_images \/ good = files)) =>
                 Len(balOut.images) = balIn.min_images
           /\ files = 0 => balOut.images = <<>>

\* the image files of a folder, and the originals cv2.imread decodes from it
ImageFileCount(folder) == Len(SelectIdx(folder, {"broken", "image"}, 1))

OriginalsOf(folder) ==
    {Original(folder[i].id, folder[i].nfaces) : i \in {j \in DOMAIN folder : folder[j].kind = "image"}}

\* C13: when the folder holds at least Q image files, every element of the
\* balanced list is an original of the folder and no original appears twice
\* (the files of a folder are distinct originals).
C13_NoDuplicateWhenRich ==
    (balOut.done /\ ImageFileCount(balIn.folder) >= balIn.min_images) =>
        /\ \A i \in DOMAIN balOut.images : balOut.images[i] \in OriginalsOf(balIn.folder)
        /\ \A i, j \in DOMAIN balOut.images : i # j => balOut.images[i] # balOut.images[j]
        /\ Len(balOut.images) <= balIn.min_images

\* C13 witness: three decodable files, quota 2: two different originals returned.
C13_Witness ==
    /\ balOut.done
    /\ ImageFileCount(balIn.folder) = 3
    /\ Cardinality(OriginalsOf(balIn.folder)) = 3
    /\ balIn.min_images = 2
    /\ Len(balOut.images) = 2

\* loaded_images: the originals cv2.imread decodes, in the order of the listing
LoadedImages(folder) ==
    LET decoded == SelectIdx(folder, {"image"}, 1)
    IN [k \in 1..Len(decoded) |-> Original(folder[decoded[k]].id, folder[decoded[k]].nfaces)]

\* the balanced list is all the loaded originals followed by copies of
\* originals up to the quota
OriginalsThenCopies ==
    LET loaded == LoadedImages(balIn.folder)
    IN /\ Len(balOut.images) = balIn.min_images
       /\ SubSeq(balOut.images, 1, Len(loaded)) = loaded
       /\ \A i \in DOMAIN balOut.images : balOut.images[i] \in OriginalsOf(balIn.folder)

\* C21: with between 1 and Q-1 loaded originals the balanced list is all the
\* originals, each at least once in every run, followed by Q minus that many
\* copies of originals; nothing that is not an original of the identity
\* appears.
C21_OriginalsThenCopies ==
    (/\ balOut.done
     /\ Len(LoadedImages(balIn.folder)) >= 1
     /\ Len(LoadedImages(balIn.folder)) < balIn.min_images) => OriginalsThenCopies

\* the part of C21 the code keeps: the same when the folder holds fewer than Q
\* image-named files
C21_WhenFewImageFiles ==
    (/\ balOut.done
     /\ Len(LoadedImages(balIn.folder)) >= 1
     /\ ImageFileCount(balIn.folder) < balIn.min_images) => OriginalsThenCopies


\* ------------------------------------------------- train_face_model
\* what OpenCV does when the warped faces come out too dark to keep
DarkOuts == [i \in 1..UsedVariations |-> [solve |-> "ok", warp |-> "ok", mean |-> 20]]

\* warpPerspective raises for the first corner configuration
WarpRaiseOuts ==
    [i \in 1..UsedVariations |->
        IF i = 1 THEN [solve |-> "ok", warp |-> "raise", mean |-> 0]
                 ELSE [solve |-> "ok", warp |-> "ok", mean |-> 128]]

\* getPerspectiveTransform raises for the first corner configuration
SolveRaiseOuts ==
    [i \in 1..UsedVariations |->
        IF i = 1 THEN [solve |-> "raise", warp |-> "ok", mean |-> 0]
                 ELSE [solve |-> "ok", warp |-> "ok", mean |-> 128]]

\* the identity folders a training run is tried with, as the files they hold
FolderShapes ==
    {<<>>,
     <<[nfaces |-> 0, kind |-> "other", outs |-> BrightOuts]>>,
     <<[nfaces |-> 0, kind |-> "broken", outs |-> BrightOuts]>>,
     <<[nfaces |-> 0, kind |-> "image", outs |-> BrightOuts]>>,
     <<[nfaces |-> 1, kind |-> "image", outs |-> BrightOuts]>>,
     <<[nfaces |-> 1, kind |-> "image", outs |-> DarkOuts],
       [nfaces |-> 0, kind |-> "broken", outs |-> BrightOuts]>>,
     <<[nfaces |-> 2, kind |-> "image", outs |-> WarpRaiseOuts],
       [nfaces |-> 0, kind |-> "image", outs |-> BrightOuts]>>,
     <<[nfaces |-> 1, kind |-> "image", outs |-> SolveRaiseOuts]>>}

\* the folder of identity k: its files carry ids no other identity's files carry
Folder(k, shape) ==
    [i \in 1..Len(shape) |-> File(10 * k + i, shape[i].kind, shape[i].nfaces, shape[i].outs)]

\* data/ with 0..MaxIds identity folders
DataSets ==
    UNION {{[k \in 1..n |-> Folder(k, shapes[k])] : shapes \in [1..n -> FolderShapes]} :
              n \in 0..MaxIds}

\* what OpenCV does with the face of the file an image was read from
OutsOf(folder, image) ==
    LET i == CHOOSE i \in DOMAIN folder : folder[i].id = image.id
    IN folder[i].outs

\* train_face_model, "for img_idx, image in enumerate(image_list)" from image i on:
\* the samples appended, or the raise that leaves the function
RECURSIVE TrainProcessImages(_, _, _)
TrainProcessImages(folder, image_list, i) ==
    IF i > Len(image_list)
    THEN [raised |-> FALSE, faces |-> <<>>]
    ELSE LET one == TrainProcessImage(image_list[i], OutsOf(folder, image_list[i]))
         IN IF one.raised
            THEN [raised |-> TRUE, faces |-> one.faces]
            ELSE LET rest == TrainProcessImages(folder, image_list, i + 1)
                 IN [raised |-> rest.raised, faces |-> one.faces \o rest.faces]

\* os.listdir(data_path), directories only: the folders in any order, each named
\* by its position in data (folder k is StudentNames[k], and the names are in
\* lexicographic order)
ListDir(folders) == PermsOf([k \in 1..Len(folders) |-> k])

\* a listing left in the order os.listdir gave it
SortedNot(listing) == listing

\* sorted(listing)
Sorted(listing) ==
    CHOOSE s \in PermsOf(listing) : \A i, j \in 1..Len(s) : i < j => s[i] <= s[j]

\* "if not student_folders"
NoStudents(folders) == Len(folders) = 0

\* a run that never finds its sample list empty
NoFacesFoundNever(faces) == FALSE

\* "if len(faces_list) == 0"
NoFacesFound(faces) == Len(faces) = 0

\* np.random.permutation(n), tried with the identity, the reversal and a rotation
ShuffleIndices(n) ==
    {[i \in 1..n |-> i], [i \in 1..n |-> n + 1 - i], [i \in 1..n |-> (i % n) + 1]}

\* the labels of the samples a model was fitted on
LabelsIn(labels) == {labels[i] : i \in DOMAIN labels}

\* what predict does on one sample inside quick_test: the sample's own label at
\* a distance either side of the 50 mark, or another label
QuickOutcomes(own) ==
    {[label |-> own, dist |-> 49], [label |-> own, dist |-> 50], [label |-> -1, dist |-> 49]}

\* what predict answers over the samples of one quick_test: c samples right
\* and above 50, the next one right at exactly 50, the others given another
\* label; counted from the front and from the back
QuickPreds(labels) ==
    LET n == Len(labels)
        outcome(own, i, c) ==
            IF i <= c THEN [label |-> own, dist |-> 49]
            ELSE IF i = c + 1 THEN [label |-> own, dist |-> 50]
            ELSE [label |-> -1, dist |-> 49]
        tried == UNION {{[i \in 1..n |-> outcome(labels[i], i, c)],
                         [i \in 1..n |-> outcome(labels[i], n + 1 - i, c)]} : c \in 0..n}
    IN {preds \in tried : \A i \in 1..n : preds[i] \in QuickOutcomes(labels[i])}

\* quick_test: the samples tested, the samples counted correct, the verdict
RECURSIVE QuickCorrect(_, _, _)
QuickCorrect(labels, preds, i) ==
    IF i > Len(preds)
    THEN 0
    ELSE (IF preds[i].label = labels[i] /\ QuickConfidencePercent(preds[i].dist) > 50
          THEN 1 ELSE 0) + QuickCorrect(labels, preds, i + 1)

\* quick_test reporting "learning correctly" from two correct samples on
QuickTestLenient(faces, labels, preds) ==
    LET n == Min(QuickTestSamples, Len(faces))
        correct == QuickCorrect(labels, preds, 1)
    IN [faces |-> faces,
        tested |-> n,
        correct |-> correct,
        learning |-> correct >= 2,
        labels |-> labels,
        preds |-> preds]

\* quick_test: what it was handed, what predict answered, the samples tested,
\* the samples counted correct, the verdict printed
QuickTest(faces, labels, preds) ==
    LET n == Min(QuickTestSamples, Len(faces))
        correct == QuickCorrect(labels, preds, 1)
    IN [faces |-> faces,
        tested |-> n,
        correct |-> correct,
        learning |-> correct >= 3,
        labels |-> labels,
        preds |-> preds]

\* train_face_model from its first line to the listing of the data folder
TrainBegin ==
    /\ tpc = "idle"
    /\ run' = run + 1
    /\ fitted' = EmptyRecognizer
    /\ faces_list' = <<>>
    /\ labels_list' = <<>>
    /\ label_dict' = <<>>
    /\ current_label' = 0
    /\ faces_array' = <<>>
    /\ labels_array' = <<>>
    /\ fits' = 0
    /\ written' = {}
    /\ quick' = NoQuick
    /\ image_lists' = <<>>
    /\ \E listing \in ListDir(data) :
          /\ student_folders' = Sorted(listing)
          /\ IF NoStudents(Sorted(listing))
             THEN tpc' = "returned" /\ tret' = "False"
             ELSE tpc' = "students" /\ tret' = "none"
    /\ UNCHANGED <<data, ld>>
    /\ UNCHANGED notTrain

\* train_face_model() called directly: the model directory is left as it is
TrainStart ==
    /\ TrainBegin
    /\ disk0' = <<modelFile, labelFile>>
    /\ UNCHANGED <<modelFile, labelFile>>

\* main_menu, choice 1: shutil.rmtree('model') inside try/except: pass, then
\* train_face_model()
MainMenuTrain ==
    /\ TrainBegin
    /\ \E removed \in BOOLEAN :
          /\ modelFile' = IF removed THEN Absent ELSE modelFile
          /\ labelFile' = IF removed THEN Absent ELSE labelFile
          /\ disk0' = <<modelFile', labelFile'>>

\* the pass returning False from train_face_model where the code says "continue"
TrainStudentReturnsOnEmpty ==
    /\ tpc = "students"
    /\ current_label < Len(student_folders)
    /\ LET folder == data[student_folders[current_label + 1]]
           student_name == StudentNames[student_folders[current_label + 1]]
       IN /\ label_dict' = Append(label_dict, student_name)
          /\ \E image_list \in GenerateInMemoryTrainingData(folder, Quota) :
                /\ image_lists' = Append(image_lists, image_list)
                /\ IF image_list = <<>>
                   THEN /\ current_label' = current_label + 1
                        /\ tpc' = "returned"
                        /\ tret' = "False"
                        /\ UNCHANGED <<faces_list, labels_list>>
                   ELSE LET p == TrainProcessImages(folder, image_list, 1)
                        IN /\ faces_list' = faces_list \o p.faces
                           /\ labels_list' =
                                 labels_list \o [i \in 1..Len(p.faces) |-> current_label]
                           /\ IF p.raised
                              THEN /\ tpc' = "raised"
                                   /\ tret' = "raised"
                                   /\ UNCHANGED current_label
                              ELSE /\ current_label' = current_label + 1
                                   /\ UNCHANGED <<tpc, tret>>
    /\ UNCHANGED <<data, run, faces_array, labels_array, fitted, fits, written, disk0, quick,
                   student_folders>>
    /\ UNCHANGED <<modelFile, labelFile, ld>>
    /\ UNCHANGED notTrain

\* one pass of "for student_name in student_folders"
TrainStudent ==
    /\ tpc = "students"
    /\ current_label < Len(student_folders)
    /\ LET folder == data[student_folders[current_label + 1]]
           student_name == StudentNames[student_folders[current_label + 1]]
       IN /\ label_dict' = Append(label_dict, student_name)
          /\ \E image_list \in GenerateInMemoryTrainingData(folder, Quota) :
                /\ image_lists' = Append(image_lists, image_list)
                /\ IF image_list = <<>>
                   THEN /\ current_label' = current_label + 1
                        /\ UNCHANGED <<faces_list, labels_list, tpc, tret>>
                   ELSE LET p == TrainProcessImages(folder, image_list, 1)
                        IN /\ faces_list' = faces_list \o p.faces
                           /\ labels_list' =
                                 labels_list \o [i \in 1..Len(p.faces) |-> current_label]
                           /\ IF p.raised
                              THEN /\ tpc' = "raised"
                                   /\ tret' = "raised"
                                   /\ UNCHANGED current_label
                              ELSE /\ current_label' = current_label + 1
                                   /\ UNCHANGED <<tpc, tret>>
    /\ UNCHANGED <<data, run, faces_array, labels_array, fitted, fits, written, disk0, quick,
                   student_folders>>
    /\ UNCHANGED <<modelFile, labelFile, ld>>
    /\ UNCHANGED notTrain

\* the shuffle permuting the images and leaving the labels in place
TrainShuffleFacesOnly ==
    /\ tpc = "students"
    /\ current_label = Len(student_folders)
    /\ IF NoFacesFound(faces_list)
       THEN /\ tpc' = "returned"
            /\ tret' = "False"
            /\ UNCHANGED <<faces_array, labels_array>>
       ELSE /\ \E indices \in ShuffleIndices(Len(faces_list)) :
                  /\ faces_array' = [i \in 1..Len(faces_list) |-> faces_list[indices[i]]]
                  /\ labels_array' = labels_list
            /\ tpc' = "train"
            /\ UNCHANGED tret
    /\ UNCHANGED <<data, run, faces_list, labels_list, label_dict, current_label,
                   fitted, fits, written, disk0, quick,
                   student_folders, image_lists>>
    /\ UNCHANGED <<modelFile, labelFile, ld>>
    /\ UNCHANGED notTrain

\* after the loop: the empty check, the arrays and the shuffle
TrainShuffle ==
    /\ tpc = "students"
    /\ current_label = Len(student_folders)
    /\ IF NoFacesFound(faces_list)
       THEN /\ tpc' = "returned"
            /\ tret' = "False"
            /\ UNCHANGED <<faces_array, labels_array>>
       ELSE /\ \E indices \in ShuffleIndices(Len(faces_list)) :
                  /\ faces_array' = [i \in 1..Len(faces_list) |-> faces_list[indices[i]]]
                  /\ labels_array' = [i \in 1..Len(labels_list) |-> labels_list[indices[i]]]
            /\ tpc' = "train"
            /\ UNCHANGED tret
    /\ UNCHANGED <<data, run, faces_list, labels_list, label_dict, current_label,
                   fitted, fits, written, disk0, quick,
                   student_folders, image_lists>>
    /\ UNCHANGED <<modelFile, labelFile, ld>>
    /\ UNCHANGED notTrain

\* the fit going straight on to the self-test, the two writes left out
TrainFitSkipsPersist ==
    /\ tpc = "train"
    /\ fitted' = Model(run, LabelsIn(labels_array))
    /\ fits' = fits + 1
    /\ tpc' = "quick_test"
    /\ UNCHANGED <<data, run, faces_list, labels_list, label_dict, current_label,
                   faces_array, labels_array, tret, written, disk0, quick,
                   student_folders, image_lists>>
    /\ UNCHANGED <<modelFile, labelFile, ld>>
    /\ UNCHANGED notTrain

\* recognizer.train(faces_array, labels_array)
TrainFit ==
    /\ tpc = "train"
    /\ fitted' = Model(run, LabelsIn(labels_array))
    /\ fits' = fits + 1
    /\ tpc' = "write_model"
    /\ UNCHANGED <<data, run, faces_list, labels_list, label_dict, current_label,
                   faces_array, labels_array, tret, written, disk0, quick,
                   student_folders, image_lists>>
    /\ UNCHANGED <<modelFile, labelFile, ld>>
    /\ UNCHANGED notTrain

\* recognizer.write(model_path)
TrainWriteModel ==
    /\ tpc = "write_model"
    /\ modelFile' = fitted
    /\ written' = written \cup {"model"}
    /\ tpc' = "write_labels"
    /\ UNCHANGED <<data, run, faces_list, labels_list, label_dict, current_label,
                   faces_array, labels_array, fitted, tret, fits, disk0, quick,
                   student_folders, image_lists>>
    /\ UNCHANGED <<labelFile, ld>>
    /\ UNCHANGED notTrain

\* pickle.dump(label_dict, f)
TrainWriteLabels ==
    /\ tpc = "write_labels"
    /\ labelFile' = Labels(run, label_dict)
    /\ written' = written \cup {"labels"}
    /\ tpc' = "quick_test"
    /\ UNCHANGED <<data, run, faces_list, labels_list, label_dict, current_label,
                   faces_array, labels_array, fitted, tret, fits, disk0, quick,
                   student_folders, image_lists>>
    /\ UNCHANGED <<modelFile, ld>>
    /\ UNCHANGED notTrain

\* quick_test(faces_array[:5], labels_array[:5], recognizer, label_dict); return True
TrainQuickTest ==
    /\ tpc = "quick_test"
    /\ LET n == Min(QuickTestSamples, Len(faces_array))
           faces == SubSeq(faces_array, 1, n)
           labels == SubSeq(labels_array, 1, n)
       IN \E preds \in QuickPreds(labels) :
             quick' = QuickTest(faces, labels, preds)
    /\ tpc' = "returned"
    /\ tret' = "True"
    /\ UNCHANGED <<data, run, faces_list, labels_list, label_dict, current_label,
                   faces_array, labels_array, fitted, fits, written, disk0,
                   student_folders, image_lists>>
    /\ UNCHANGED <<modelFile, labelFile, ld>>
    /\ UNCHANGED notTrain

\* the process is stopped between the two writes
TrainStop ==
    /\ tpc = "write_labels"
    /\ tpc' = "stopped"
    /\ UNCHANGED <<data, run, faces_list, labels_list, label_dict, current_label,
                   faces_array, labels_array, fitted, tret, fits, written, disk0, quick,
                   student_folders, image_lists>>
    /\ UNCHANGED <<modelFile, labelFile, ld>>
    /\ UNCHANGED notTrain

\* the artifact of an earlier run, found on disk when the first run starts
PriorModel == Model(0, {0})

PriorLabels == Labels(0, <<"zoe">>)

TrainInit ==
    /\ data \in DataSets
    /\ \E prior \in {<<Absent, Absent>>, <<PriorModel, PriorLabels>>} :
          /\ modelFile = prior[1]
          /\ labelFile = prior[2]
          /\ disk0 = prior
    /\ tpc = "idle"
    /\ run = 0
    /\ faces_list = <<>>
    /\ labels_list = <<>>
    /\ label_dict = <<>>
    /\ current_label = 0
    /\ faces_array = <<>>
    /\ labels_array = <<>>
    /\ fitted = PyNone
    /\ tret = "none"
    /\ fits = 0
    /\ written = {}
    /\ quick = NoQuick
    /\ student_folders = <<>>
    /\ image_lists = <<>>
    /\ proc = "none"
    /\ tf = TfFresh
    /\ web = WebFresh
    /\ ready = "unset"
    /\ res = Idle
    /\ ScoreIdle
    /\ PreIdle
    /\ AngIdle
    /\ BalIdle
    /\ LdIdle
    /\ HeldIdle

TrainNext ==
    \/ TrainStart
    \/ MainMenuTrain
    \/ TrainStudent
    \/ TrainShuffle
    \/ TrainFit
    \/ TrainWriteModel
    \/ TrainWriteLabels
    \/ TrainQuickTest
    \/ TrainStop

SpecTrain == TrainInit /\ [][TrainNext]_vars

FolderAt(k) == data[student_folders[k]]

\* the number of samples accumulated under label l
SamplesOf(l) == Cardinality({i \in DOMAIN labels_list : labels_list[i] = l})

\* C11: an identity folder without image files is skipped and nothing else:
\* its pass does not raise, it adds no sample, every other identity adds the
\* samples of its balanced images, and a run that ends with samples has
\* trained once and written the model and the label map.
C11_EmptyIdentityOnlySkipped ==
    /\ tpc = "raised" => HasImageFile(FolderAt(current_label + 1))
    /\ \A k \in 1..current_label :
          /\ ~HasImageFile(FolderAt(k)) => image_lists[k] = <<>> /\ SamplesOf(k - 1) = 0
          /\ SamplesOf(k - 1) = Len(TrainProcessImages(FolderAt(k), image_lists[k], 1).faces)
    /\ (tpc = "returned" /\ Len(faces_list) > 0) =>
          /\ tret = "True"
          /\ fits = 1
          /\ modelFile = Model(run, LabelsIn(labels_list))
          /\ labelFile = Labels(run, label_dict)
          /\ Len(label_dict) = Len(data)

\* C11 witness: one of two identities had no image file and the run persisted
\* the model of the other.
C11_Witness ==
    /\ tpc = "returned"
    /\ tret = "True"
    /\ Len(data) = 2
    /\ \E k \in 1..2 : ~HasImageFile(FolderAt(k)) /\ HasImageFile(FolderAt(3 - k))
    /\ written = {"model", "labels"}
    /\ Cardinality(modelFile.labs) = 1


\* the identity folder a sample was read from: Folder(k, _) numbers its files 10k + i
FolderOfSample(img) == img.id \div 10

\* C12: the listing is processed in sorted order, label l is given to the
\* (l+1)-th name of that order whether or not the identity yields images, the
\* label map written is the one-to-one map from 0..K-1 to the K names, and
\* every sample carries the label of the identity whose file it was read from.
C12_PositionalLabels ==
    /\ tpc # "idle" => student_folders = [k \in 1..Len(data) |-> k]
    /\ Len(label_dict) = IF tpc = "raised" THEN current_label + 1 ELSE current_label
    /\ \A l \in 0..(Len(label_dict) - 1) : label_dict[l + 1] = StudentNames[l + 1]
    /\ Len(faces_list) = Len(labels_list)
    /\ \A i \in DOMAIN faces_list : FolderOfSample(faces_list[i]) = labels_list[i] + 1
    /\ "labels" \in written =>
          /\ labelFile = Labels(run, SubSeq(StudentNames, 1, Len(data)))
          /\ \A a, b \in DOMAIN labelFile.map : a # b => labelFile.map[a] # labelFile.map[b]

\* C12 witness: the first of two identities was skipped and still holds label 0;
\* the samples of the second carry label 1.
C12_Witness ==
    /\ tpc = "returned"
    /\ tret = "True"
    /\ Len(data) = 2
    /\ image_lists[1] = <<>>
    /\ labelFile.map = <<"alice", "bob">>
    /\ modelFile.labs = {1}

\* C14: an exception raised while one identity is processed never leaves
\* train_face_model: the identity is skipped and the run goes on to the next.
C14_FailureSkipsIdentityOnly == tpc # "raised" /\ tret # "raised"

\* the positions of the balanced list of identity k whose image holds a face
FaceBearing(k) == {j \in DOMAIN image_lists[k] : image_lists[k][j].nfaces > 0}

\* the positions of faces_list holding a sample of label l made from file id
SamplesFrom(l, id) ==
    {i \in DOMAIN faces_list : labels_list[i] = l /\ faces_list[i].id = id}

\* C20: a balanced image without a face adds no sample and the run goes on;
\* an image with a face adds one sample per variant the synthesizer returned,
\* each under the identity's label; an identity with f face-bearing balanced
\* images has between 2f and 4f samples and never more than 4 times the quota.
C20_SamplesPerIdentity ==
    \A k \in 1..current_label :
       LET f == Cardinality(FaceBearing(k))
       IN /\ 2 * f <= SamplesOf(k - 1)
          /\ SamplesOf(k - 1) <= MaxAngledFaces * f
          /\ SamplesOf(k - 1) <= MaxAngledFaces * Quota
          /\ \A j \in DOMAIN image_lists[k] :
                LET image == image_lists[k][j]
                    copies == Cardinality({c \in DOMAIN image_lists[k] :
                                              image_lists[k][c].id = image.id})
                    variants == ApplyVirtualAngles(image, OutsOf(FolderAt(k), image)).faces
                IN Cardinality(SamplesFrom(k - 1, image.id)) =
                      IF image.nfaces = 0 THEN 0 ELSE copies * Len(variants)
          /\ \A i \in DOMAIN faces_list :
                labels_list[i] = k - 1 =>
                   \E j \in FaceBearing(k) : image_lists[k][j].id = faces_list[i].id

\* C20 witness: an identity whose balanced list holds one image with a face and
\* one without was passed; it has the three samples of the first image, and the
\* run went on to the shuffle.
C20_Witness ==
    /\ tpc = "train"
    /\ \E k \in 1..current_label :
          /\ Cardinality(FaceBearing(k)) = 1
          /\ Len(image_lists[k]) = 2
          /\ SamplesOf(k - 1) = 3

\* the samples quick_test counts correct, from what it was handed and what
\* predict answered: the predicted label is the sample's and 100 minus the
\* distance, clamped, is above 50
QuickCorrectSamples ==
    {i \in 1..quick.tested :
        /\ quick.preds[i].label = quick.labels[i]
        /\ Max(0, 100 - Min(quick.preds[i].dist, 100)) > 50}

\* C22: quick_test runs on 5 of the samples just built (all of them when there
\* are fewer), counts a sample correct iff the predicted label is the sample's
\* label and the confidence is strictly above 50, reports "learning correctly"
\* iff at least 3 tested samples are correct, and whatever it reports the run
\* returns True with the artifact as written.
C22_QuickTestCountsAndReports ==
    quick # NoQuick =>
        /\ quick.tested = Min(QuickTestSamples, Len(faces_array))
        /\ quick.faces = SubSeq(faces_array, 1, quick.tested)
        /\ quick.labels = SubSeq(labels_array, 1, quick.tested)
        /\ \A i \in 1..quick.tested :
              \E j \in DOMAIN faces_list :
                 faces_list[j] = quick.faces[i] /\ labels_list[j] = quick.labels[i]
        /\ quick.correct = Cardinality(QuickCorrectSamples)
        /\ quick.learning <=> quick.correct >= 3
        /\ tpc = "returned"
        /\ tret = "True"
        /\ modelFile = fitted
        /\ labelFile = Labels(run, label_dict)

\* C22 witness: the self-test counted two of five samples correct, one sample
\* with its own label at confidence 50 was not counted, the verdict was "may
\* need more training data", and the run returned True.
C22_Witness ==
    /\ tret = "True"
    /\ quick.tested = QuickTestSamples
    /\ quick.correct = 2
    /\ ~quick.learning
    /\ \E i \in 1..quick.tested :
          quick.preds[i].label = quick.labels[i] /\ quick.preds[i].dist = 50

\* how often the pair (image, label) occurs in two parallel lists
PairCount(images, labels, image, label) ==
    Cardinality({i \in DOMAIN images : images[i] = image /\ labels[i] = label})

\* C24: the image list and the label list grow together, the shuffle applies
\* one permutation to both, so the (image, label) pairs handed to fit are, with
\* their multiplicities, the pairs accumulated, and no image is fitted under
\* the label of another identity.
C24_PairsKeptThroughShuffle ==
    /\ Len(faces_list) = Len(labels_list)
    /\ Len(faces_array) = Len(labels_array)
    /\ faces_array # <<>> =>
          /\ Len(faces_array) = Len(faces_list)
          /\ \A i \in DOMAIN faces_array :
                /\ PairCount(faces_array, labels_array, faces_array[i], labels_array[i])
                      = PairCount(faces_list, labels_list, faces_array[i], labels_array[i])
                /\ PairCount(faces_array, labels_array, faces_list[i], labels_list[i])
                      = PairCount(faces_list, labels_list, faces_list[i], labels_list[i])
                /\ FolderOfSample(faces_array[i]) = student_folders[labels_array[i] + 1]
    /\ fits = 1 => fitted = Model(run, LabelsIn(labels_list))

\* C24 witness: samples of two identities were shuffled into another order and
\* the model was fitted on them.
C24_Witness ==
    /\ fits = 1
    /\ faces_array # faces_list
    /\ Cardinality(LabelsIn(labels_array)) = 2
    /\ \E i \in DOMAIN faces_array : labels_array[i] # labels_list[i]

\* the stages of train_face_model in the order of its text: a step goes from a
\* stage to itself (the identity loop) or to a later one
StageOrder ==
    {<<"idle", "students">>, <<"idle", "returned">>,
     <<"students", "students">>, <<"students", "raised">>,
     <<"students", "train">>, <<"students", "returned">>,
     <<"train", "write_model">>,
     <<"write_model", "write_labels">>,
     <<"write_labels", "quick_test">>, <<"write_labels", "stopped">>,
     <<"quick_test", "returned">>}

\* what a run that has returned has done
StagesOfReturn ==
    /\ (tpc = "returned" /\ tret = "True") =>
          /\ current_label = Len(student_folders)
          /\ Len(faces_array) = Len(faces_list)
          /\ fits = 1
          /\ written = {"model", "labels"}
          /\ modelFile = fitted
          /\ labelFile = Labels(run, label_dict)
          /\ quick # NoQuick
    /\ (tpc = "returned" /\ tret = "False") =>
          /\ faces_array = <<>>
          /\ fits = 0
          /\ written = {}
          /\ quick = NoQuick

\* one step of a run: the stage moves forward, and each stage's work is done
\* at that stage and once
StageStep ==
    /\ <<tpc, tpc'>> \in StageOrder
    /\ tpc' = "train" =>
          /\ tpc = "students"
          /\ current_label = Len(student_folders)
          /\ faces_list' = faces_list
    /\ faces_array' # faces_array => (tpc = "students" /\ tpc' = "train")
    /\ fits' # fits => (tpc = "train" /\ fits = 0 /\ fits' = 1)
    /\ written' # written =>
          \/ tpc = "write_model" /\ written = {} /\ written' = {"model"}
          \/ tpc = "write_labels" /\ written = {"model"} /\ written' = {"model", "labels"}
    /\ quick' # quick => (tpc = "quick_test" /\ quick = NoQuick /\ tpc' = "returned")
    /\ tret' = "True" => tpc = "quick_test"
    /\ tret' = "False" => tpc \in {"idle", "students"}

\* C19: in a run that returns True the stages come in the order identities,
\* one shuffle, one fit, the write of the model and of the label map, the
\* self-test, return; no stage is gone through twice; a run that returns False
\* has done no fit, no write and no self-test.
C19_StagesInOrder == []StagesOfReturn /\ [][StageStep]_vars

\* C19 witness: a run returned True after one fit, both writes and the self-test.
C19_Witness ==
    /\ tpc = "returned"
    /\ tret = "True"
    /\ fits = 1
    /\ quick # NoQuick
    /\ modelFile = fitted
    /\ labelFile = Labels(run, label_dict)

\* a file of the model directory that some run wrote, and not this one
OlderFile(f) == f.st = "ok" /\ f.run # run

\* C17: in every training run, started from main_menu or by a direct call of
\* train_face_model, the prior model directory is removed before the new files
\* are written: once this run has written a file, no file of an older run is
\* in the model directory.
C17_NoOlderFileBesideNew ==
    written # {} => (~OlderFile(modelFile) /\ ~OlderFile(labelFile))

\* the main_menu half of C17: when the removal went through, the run that
\* follows never has an older file next to one it wrote
C17_MenuRunRemovesFirst ==
    (disk0 = <<Absent, Absent>> /\ written # {}) =>
        (~OlderFile(modelFile) /\ ~OlderFile(labelFile))

\* ------------------------------- load_model beside a training run
\* load_model of Train_face/face_utils.py on a fresh FaceRecognizer of another
\* process, one file access at a time.
\* "if os.path.exists(self.model_path) and os.path.exists(self.label_path)"
LdExists ==
    /\ ld.pc = "idle"
    /\ ld' = IF modelFile.st # "absent" /\ labelFile.st # "absent"
             THEN [ld EXCEPT !.pc = "read_model"]
             ELSE [ld EXCEPT !.pc = "done", !.ret = FALSE]
    /\ UNCHANGED <<modelFile, labelFile, trainVars>>
    /\ UNCHANGED notTrain

\* LBPHFaceRecognizer_create() and self.recognizer.read(self.model_path)
LdReadModel ==
    /\ ld.pc = "read_model"
    /\ ld' = IF modelFile.st = "ok"
             THEN [ld EXCEPT !.pc = "read_labels", !.inst.recognizer = modelFile]
             ELSE [ld EXCEPT !.pc = "done", !.ret = FALSE, !.inst.recognizer = EmptyRecognizer]
    /\ UNCHANGED <<modelFile, labelFile, trainVars>>
    /\ UNCHANGED notTrain

\* open(self.label_path, 'rb') and pickle.load(f); return True
LdReadLabels ==
    /\ ld.pc = "read_labels"
    /\ ld' = IF labelFile.st = "ok"
             THEN [ld EXCEPT !.pc = "done", !.ret = TRUE, !.inst.label_encoder = labelFile]
             ELSE [ld EXCEPT !.pc = "done", !.ret = FALSE]
    /\ UNCHANGED <<modelFile, labelFile, trainVars>>
    /\ UNCHANGED notTrain

\* FaceRecognizer(): the next process starts with a fresh instance
LdNew ==
    /\ ld.pc = "done"
    /\ ld' = LdFresh
    /\ UNCHANGED <<modelFile, labelFile, trainVars>>
    /\ UNCHANGED notTrain

\* data/ with one identity whose one photograph shows a face
PersistData ==
    <<Folder(1, <<[nfaces |-> 1, kind |-> "image", outs |-> BrightOuts]>>)>>

PersistInit ==
    /\ TrainInit
    /\ data = PersistData

PersistNext ==
    \/ TrainNext
    \/ LdExists
    \/ LdReadModel
    \/ LdReadLabels
    \/ LdNew

SpecPersist == PersistInit /\ [][PersistNext]_vars

\* C4: a load_model call that returns True beside a training run (running, or
\* stopped between its two writes) holds a model and a label map written by the
\* same training run.
C4_LoadedPairFromOneRun ==
    (ld.pc = "done" /\ ld.ret) => ld.inst.recognizer.run = ld.inst.label_encoder.run


\* ------------------------------------------------ load_model on a live instance

\* the training runs whose artifacts the model directory holds over time
ReloadRuns == 2

\* the model directory as a retrain leaves it: empty, the pair of one run, or
\* the classifier of one run with its label map unreadable or not there
ReloadDisks ==
    {<<Absent, Absent>>}
        \cup {<<ModelOf(r, MaxStudents), LabelsOf(r, MaxStudents)>> : r \in 1..ReloadRuns}
        \cup {<<ModelOf(r, MaxStudents), Corrupt>> : r \in 1..ReloadRuns}
        \cup {<<ModelOf(r, MaxStudents), Absent>> : r \in 1..ReloadRuns}

\* a retrain (or a damaged copy) replaces what the model directory holds
ReloadDiskChange ==
    /\ \E d \in ReloadDisks :
          /\ d # <<modelFile, labelFile>>
          /\ modelFile' = d[1]
          /\ labelFile' = d[2]
    /\ res' = Idle
    /\ UNCHANGED <<proc, tf, web, ready>>
    /\ UNCHANGED notRecog

\* load_model() called on the Train_face instance whatever it holds
TfReload ==
    /\ proc = "train_face"
    /\ LET l == TfLoadModel(tf, modelFile, labelFile)
       IN /\ tf' = l.inst
          /\ res' = Result("tf", "load", l.ret, NONE, 0, FALSE, -1, 0, <<>>)
    /\ UNCHANGED <<proc, modelFile, labelFile, web, ready>>
    /\ UNCHANGED notRecog

\* init_face_recognition() called again on the module-level face_recognizer;
\* app.py assigns face_recognition_ready only at import
WebReload ==
    /\ proc = "webapp"
    /\ ready # "unset"
    /\ LET l == WebLoadModel(web, modelFile, labelFile)
       IN /\ web' = l.inst
          /\ res' = Result("web", "load", l.ret, NONE, 0, FALSE, -1, 0, <<>>)
    /\ UNCHANGED <<proc, modelFile, labelFile, tf, ready>>
    /\ UNCHANGED notRecog

ReloadInit ==
    /\ proc \in {"train_face", "webapp"}
    /\ \E d \in ReloadDisks : modelFile = d[1] /\ labelFile = d[2]
    /\ tf = TfFresh
    /\ web = WebFresh
    /\ ready = "unset"
    /\ res = Idle
    /\ ScoreIdle
    /\ PreIdle
    /\ AngIdle
    /\ BalIdle
    /\ TrainIdle
    /\ LdIdle
    /\ HeldIdle

ReloadNext ==
    \/ ReloadDiskChange
    \/ TfNew
    \/ TfReload
    \/ TfRecognize
    \/ AppInit
    \/ WebReload
    \/ WebRecognize
    \/ HttpTestFaceRecognition
    \/ ResultTaken

SpecReload == ReloadInit /\ [][ReloadNext]_vars

\* the classifier and the label map an instance holds were written by one run
PairOfOneRun(inst) ==
    (inst.recognizer.st = "ok" /\ inst.label_encoder.st = "ok")
        => inst.recognizer.run = inst.label_encoder.run

\* C16: after any sequence of load_model calls on an instance, successful or
\* failing part-way, a recognition that uses a classifier and a label map uses
\* two that come from the same artifact: never a new classifier with an older
\* label map.
C16_PairOfOneArtifact ==
    /\ (res.kind = "recognize" /\ res.who = "tf" /\ res.fed # <<>>) => PairOfOneRun(tf)
    /\ (res.kind = "recognize" /\ res.who \in {"web", "http"} /\ res.fed # <<>>)
          => PairOfOneRun(web)


\* ------------------------------------------------ test_on_existing_images

\* random.sample(image_files, min(3, len(image_files)))
HeldOutSamples == 3

\* the identity folders the held-out check is tried with
HeldShapes ==
    {<<>>,
     <<[nfaces |-> 0, kind |-> "broken", outs |-> BrightOuts]>>,
     <<[nfaces |-> 1, kind |-> "image", outs |-> BrightOuts],
       [nfaces |-> 0, kind |-> "image", outs |-> BrightOuts]>>,
     <<[nfaces |-> 1, kind |-> "image", outs |-> BrightOuts],
       [nfaces |-> 0, kind |-> "other", outs |-> BrightOuts],
       [nfaces |-> 1, kind |-> "image", outs |-> BrightOuts],
       [nfaces |-> 0, kind |-> "broken", outs |-> BrightOuts],
       [nfaces |-> 2, kind |-> "image", outs |-> BrightOuts]>>,
     <<[nfaces |-> 1, kind |-> "image", outs |-> BrightOuts],
       [nfaces |-> 1, kind |-> "image", outs |-> BrightOuts],
       [nfaces |-> 2, kind |-> "image", outs |-> BrightOuts],
       [nfaces |-> 1, kind |-> "image", outs |-> BrightOuts]>>}

HeldDataSets ==
    UNION {{[k \in 1..n |-> Folder(k, shapes[k])] : shapes \in [1..n -> HeldShapes]} :
              n \in 0..MaxIds}

\* data/, model/face_model.yml and model/label_encoder.pkl as the check finds
\* them; the label map may name more or fewer identities than data/ holds
HeldInputs ==
    [data : HeldDataSets,
     labels : {Absent, Corrupt} \cup {LabelsOf(1, k) : k \in 1..MaxIds},
     model : ModelFiles]

\* os.path.exists(os.path.join('data', student_name))
StudentPathExists(d, student_name) ==
    \E k \in 1..Len(d) : StudentNames[k] = student_name

StudentPath(d, student_name) ==
    d[CHOOSE k \in 1..Len(d) : StudentNames[k] = student_name]

\* test_files: what random.sample may draw, as positions in the folder
TestFiles(folder) ==
    LET image_files == {i \in DOMAIN folder : folder[i].kind \in {"broken", "image"}}
    IN {picked \in SUBSET image_files :
           Cardinality(picked) = Min(HeldOutSamples, Cardinality(image_files))}

\* the drawn files that decode and in which a face is located
ScoredFiles(folder, picked) ==
    {i \in picked :
        /\ folder[i].kind = "image"
        /\ HeldOutProcessImage(Original(folder[i].id, folder[i].nfaces)) # <<>>}

\* what predict answers on the scored files of one identity: c of them the
\* identity's label at 41 percent, the next the identity's label at exactly 40
\* percent, the others another label
HeldPreds(folder, picked, label) ==
    LET scored == ScoredFiles(folder, picked)
        rank(i) == Cardinality({j \in scored : j <= i})
        outcome(i, c) ==
            IF rank(i) <= c THEN [label |-> label, dist |-> 59]
            ELSE IF rank(i) = c + 1 THEN [label |-> label, dist |-> 60]
            ELSE [label |-> -1, dist |-> 59]
    IN {[i \in scored |-> outcome(i, c)] : c \in 0..Cardinality(scored)}

\* one pass of "for label, student_name in label_dict.items()": the files drawn
\* and what predict answers on them
IdentityPlans(d, student_name, label) ==
    IF ~StudentPathExists(d, student_name)
    THEN {[preds |-> <<>>, files |-> {}]}
    ELSE LET folder == StudentPath(d, student_name)
         IN UNION {{[preds |-> preds, files |-> picked] :
                       preds \in HeldPreds(folder, picked, label)} :
                      picked \in TestFiles(folder)}

RECURSIVE HeldPlans(_, _, _)
HeldPlans(d, names, l) ==
    IF l > Len(names)
    THEN {<<>>}
    ELSE {<<plan>> \o rest : plan \in IdentityPlans(d, names[l], l - 1),
                             rest \in HeldPlans(d, names, l + 1)}

\* the images of one identity that reach predict, with the answer
RECURSIVE HeldScoreIdentity(_, _, _, _)
HeldScoreIdentity(folder, plan, label, i) ==
    IF i > Len(folder)
    THEN <<>>
    ELSE (IF i \in ScoredFiles(folder, plan.files)
          THEN <<[id |-> folder[i].id,
                  label |-> label,
                  confidence_percent |-> HeldOutConfidencePercent(plan.preds[i].dist),
                  pred_label |-> plan.preds[i].label]>>
          ELSE <<>>) \o HeldScoreIdentity(folder, plan, label, i + 1)

RECURSIVE HeldScore(_, _, _, _)
HeldScore(d, names, plans, l) ==
    IF l > Len(names)
    THEN <<>>
    ELSE (IF StudentPathExists(d, names[l])
          THEN HeldScoreIdentity(StudentPath(d, names[l]), plans[l], l - 1, 1)
          ELSE <<>>) \o HeldScore(d, names, plans, l + 1)

\* "if pred_label == label and confidence_percent > 40"
HeldCorrect(test) == test.pred_label = test.label /\ test.confidence_percent > 40

\* the check counting a confidence of exactly 40 as correct
TestOnExistingImagesAt40(in, plans) ==
    IF in.model.st # "ok" \/ in.labels.st # "ok"
    THEN [ret |-> 0,
          raised |-> FALSE,
          done |-> TRUE,
          tested |-> <<>>,
          correct |-> 0,
          total |-> 0,
          tests |-> <<>>]
    ELSE LET tests == HeldScore(in.data, in.labels.map, plans, 1)
             correct == Cardinality({i \in DOMAIN tests :
                                        /\ tests[i].pred_label = tests[i].label
                                        /\ tests[i].confidence_percent >= 40})
             total == Len(tests)
         IN [ret |-> IF total > 0 THEN (correct * 10000) \div total ELSE 0,
             raised |-> FALSE,
             done |-> TRUE,
             tested |-> [l \in DOMAIN plans |-> plans[l].files],
             correct |-> correct,
             total |-> total,
             tests |-> tests]

\* test_on_existing_images: the accuracy returned, in hundredths of a percent,
\* with what was drawn and scored; every exception ends in "return 0.0"
TestOnExistingImages(in, plans) ==
    IF in.model.st # "ok" \/ in.labels.st # "ok"
    THEN [ret |-> 0,
          raised |-> FALSE,
          done |-> TRUE,
          tested |-> <<>>,
          correct |-> 0,
          total |-> 0,
          tests |-> <<>>]
    ELSE LET tests == HeldScore(in.data, in.labels.map, plans, 1)
             correct == Cardinality({i \in DOMAIN tests : HeldCorrect(tests[i])})
             total == Len(tests)
         IN [ret |-> IF total > 0 THEN (correct * 10000) \div total ELSE 0,
             raised |-> FALSE,
             done |-> TRUE,
             tested |-> [l \in DOMAIN plans |-> plans[l].files],
             correct |-> correct,
             total |-> total,
             tests |-> tests]

notHeld == <<recogVars, scoreVars, preVars, angVars, balVars, trainVars, ld>>

\* main_menu, choice 2, or the call after a successful training
HeldOutRun ==
    /\ ~heldOut.done
    /\ \E plans \in HeldPlans(heldIn.data, heldIn.labels.map, 1) :
          heldOut' = TestOnExistingImages(heldIn, plans)
    /\ UNCHANGED <<heldIn, notHeld>>

\* back in the menu: the check can be asked for again
HeldOutAgain ==
    /\ heldOut.done
    /\ heldOut' = NoHeldOut
    /\ UNCHANGED <<heldIn, notHeld>>

HeldInit ==
    /\ heldIn \in HeldInputs
    /\ heldOut = NoHeldOut
    /\ RecogIdle
    /\ ScoreIdle
    /\ PreIdle
    /\ AngIdle
    /\ BalIdle
    /\ TrainIdle
    /\ LdIdle

HeldNext == HeldOutRun \/ HeldOutAgain

SpecHeldOut == HeldInit /\ [][HeldNext]_vars


\* the artifact the check reads is there and deserializes
HeldLoadable == heldIn.model.st = "ok" /\ heldIn.labels.st = "ok"

\* the scored images of label l
HeldTestsOf(l) == {i \in DOMAIN heldOut.tests : heldOut.tests[i].label = l}

\* C23: the held-out check reads the persisted artifact, tests at most 3
\* original images of each identity of the label map, counts an image correct
\* iff the predicted label is the identity's and the confidence is strictly
\* above 40, and returns 100*correct/total over all identities (here in
\* hundredths of a percent) with 0 <= correct <= total <= 3K; it returns 0.0
\* without raising when nothing was scored or the artifact cannot be loaded.
C23_HeldOutAccuracy ==
    heldOut.done =>
        LET K == Len(heldIn.labels.map)
            names == heldIn.labels.map
        IN /\ ~heldOut.raised
           /\ ~HeldLoadable => (heldOut.ret = 0 /\ heldOut.total = 0)
           /\ heldOut.total = 0 => heldOut.ret = 0
           /\ HeldLoadable =>
                 /\ Len(heldOut.tested) = K
                 /\ \A l \in 0..(K - 1) :
                       /\ Cardinality(heldOut.tested[l + 1]) <= 3
                       /\ Cardinality(HeldTestsOf(l)) <= Cardinality(heldOut.tested[l + 1])
                       /\ \A i \in HeldTestsOf(l) :
                             /\ StudentPathExists(heldIn.data, names[l + 1])
                             /\ \E j \in heldOut.tested[l + 1] :
                                   LET file == StudentPath(heldIn.data, names[l + 1])[j]
                                   IN /\ file.id = heldOut.tests[i].id
                                      /\ file.kind = "image"
                                      /\ file.nfaces > 0
                 /\ \A i \in DOMAIN heldOut.tests : heldOut.tests[i].label \in 0..(K - 1)
                 /\ heldOut.total = Len(heldOut.tests)
                 /\ heldOut.correct =
                       Cardinality({i \in DOMAIN heldOut.tests :
                                       /\ heldOut.tests[i].pred_label = heldOut.tests[i].label
                                       /\ heldOut.tests[i].confidence_percent > 40})
                 /\ 0 <= heldOut.correct
                 /\ heldOut.correct <= heldOut.total
                 /\ heldOut.total <= 3 * K
                 /\ heldOut.total > 0 =>
                       heldOut.ret = (100 * 100 * heldOut.correct) \div heldOut.total

\* C23 witness: two identities, the first with four originals of which three
\* were drawn; five images were scored in all, one with the right label at a
\* confidence of exactly 40 was not counted, and an accuracy strictly between
\* 0 and 100 was returned.
C23_Witness ==
    /\ heldOut.done
    /\ Len(heldIn.labels.map) = 2
    /\ Len(heldIn.data) = 2
    /\ Len(heldIn.data[1]) = 4
    /\ Cardinality(HeldTestsOf(0)) = 3
    /\ heldOut.total = 5
    /\ heldOut.correct = 3
    /\ heldOut.ret = 6000
    /\ \E i \in DOMAIN heldOut.tests :
          /\ heldOut.tests[i].pred_label = heldOut.tests[i].label
          /\ heldOut.tests[i].confidence_percent = 40

====
